---- MODULE Spec2Model ----
(***************************************************************************)
(* A model of gcp_oauth_clients: the native PKCE authorization-code flow   *)
(* (native.py), the redirect capture listener (server.py) and the token    *)
(* response parsing (tokens.py), under Spec; the service-account flow      *)
(* (confidential.py) and its clock, under SpecConf; the token storage      *)
(* (repository.py), under SpecRepo; the IAP native client (iap.py) beside   *)
(* the native clients, under SpecIap.                                      *)
(*                                                                         *)
(* Conventions.  An Optional[T] field is a sequence of length at most one: *)
(* None is <<>> and a value x is <<x>>.  Python strings that the program   *)
(* only compares are TLA+ strings; the scope string of a token response,   *)
(* which the program splits, is a sequence of characters, where a scope    *)
(* word stands for a run of non-space characters and " " for one space.    *)
(***************************************************************************)
EXTENDS Integers, Sequences, FiniteSets, TLC

\* ------------------------------------------------------------------ bounds
\* new_login calls that generate PKCE material, over all clients
MaxLogins == 2
\* token-endpoint requests recorded per client and login
MaxPosts == 2

\* the wall clock counts ticks; the clock values looked at are 0..MaxClock
MaxClock == 6
\* how far, in ticks, the clock moves (forward, or back when it is set)
\* between two reads of it
MaxAdvance == 2
\* ticks per second: time.time() is finer than the second int() keeps
TicksPerSecond == 2

\* rows the Tokens table holds at most
MaxRows == 2

\* ------------------------------------------------------------- value sets
Clients == {"c1", "c2"}
IapClients == {"i1", "i2"}

\* every login starts at most one listener
ListenerIds == 1..MaxLogins

None == <<>>
Some(x) == <<x>>
IsNone(o) == o = None
Val(o) == o[1]

\* os.urandom draws are fresh: the n-th login draws the n-th verifier and state
VerifierNames == <<"v1", "v2", "v3", "v4", "v5", "v6">>
StateNames == <<"s1", "s2", "s3", "s4", "s5", "s6">>

Codes == {"ABC", "XYZ"}
ScopeArgs == {<<>>, <<"openid", "email">>}

\* the port the OS assigns to the k-th listener
PortBase == 50000
OobUri_loopback == [scheme |-> "http://127.0.0.1", port |-> 0]
OobUri == [scheme |-> "urn:ietf:wg:oauth:2.0:oob", port |-> 0]
LoopbackUri(port) == [scheme |-> "http://127.0.0.1", port |-> port]

VARIABLES
    redirect_method,  \* GcpNativeClient.redirect_method, per client
    scopes,           \* GcpNativeClient.scopes
    code_verifier,    \* GcpNativeClient.code_verifier
    code_challenge,   \* GcpNativeClient.code_challenge
    state,            \* GcpNativeClient.state
    redirect_uri,     \* GcpNativeClient.redirect_uri
    server,           \* GcpNativeClient.server: the index of a listener
    pc,               \* where each client's caller is: idle, body (of the
                      \* with block), blocked (in get_result_blocking)
    listeners,        \* the LocalServer instances created so far
    resultQ,          \* LocalHandler.result, the class attribute queue
    posts,            \* per client, the requests sent to the token endpoint
                      \* since its latest new_login
    ret,              \* when the last step was a call of a client: the client,
                      \* the call and what it returned or raised; when it was
                      \* a connection that no listener thread accepts: that
    logins,           \* number of new_login calls that got past the scope
                      \* check: the n-th draws the n-th verifier and state
    iap_redirect_uri, \* IapNativeClient.redirect_uri, per IAP client
    iap_server,       \* IapNativeClient.server: the index of a listener
    iap_pc,           \* where each IAP client's caller is
    iap_posts,        \* per IAP client, the requests sent to the token endpoint
    conf_scopes,      \* GcpConfidentialClient.scopes
    clock,            \* what time.time() returns now, in ticks
    conf_ret,         \* the last call on the confidential client and what
                      \* it returned or raised
    table,            \* the rows of the Tokens table, in insertion order
    repo_ret          \* the last call on the repository, its scopes
                      \* argument and what it returned or raised

iapVars == <<iap_redirect_uri, iap_server, iap_pc, iap_posts>>

nativeVars == <<redirect_method, scopes, code_verifier, code_challenge, state,
                redirect_uri, server, pc, listeners, resultQ, posts, ret, logins,
                iapVars>>

confVars == <<conf_scopes, clock, conf_ret>>

repoVars == <<table, repo_ret>>

vars == <<nativeVars, confVars, repoVars>>

sessionVars == <<scopes, code_verifier, code_challenge, state, redirect_uri, server>>

\* -------------------------------------------------------- PKCE generators
_generate_code_verifier(n) == VerifierNames[n]

_generate_code_challenge_plain(verifier) == <<"plain", verifier>>

\* SHA-256 then url-safe base64 without padding: a one-way injective tag
_generate_code_challenge(verifier) == <<"S256", verifier>>

_generate_state(n) == StateNames[n]

\* ------------------------------------------------------------ the listener
\* LocalServer.__init__: a probe socket is bound to port 0 and the number the
\* OS gave it is kept in self.port; the probe socket itself is a local of
\* __init__ and is dropped on return, so the object holds a number, no port
LocalServer(k, n) ==
    [port |-> PortBase + k, thread |-> "none", bound |-> FALSE,
     served |-> 0, published |-> 0, error |-> None, login |-> n,
     response |-> None]

\* LocalServer.run: a TCP server is bound to self.port and one thread is
\* started on handle_request
run(srv) == [srv EXCEPT !.bound = TRUE, !.thread = "waiting"]

\* _start_local_server when the bind of run succeeds
NewListener(k, n) == run(LocalServer(k, n))

shutdown_toggle(ls, l) == [ls EXCEPT ![l].bound = ~@]

\* LocalServer.shutdown only logs
shutdown(ls, l) == ls

\* before: how many token requests the client had sent when the call began
NoRet == [client |-> "", op |-> "none", outcome |-> "none", result |-> None,
          posted |-> FALSE, token |-> None, resp |-> None, url |-> None,
          before |-> 0]

\* GcpConfidentialClient.__init__, and no call made yet
NoConfRet == [op |-> "none", outcome |-> "none", claims |-> None,
              reads |-> <<>>, posted |-> FALSE, token |-> None]

ConfInit ==
    /\ conf_scopes = None
    /\ conf_ret = NoConfRet

\* IapNativeClient.__init__
IapInit ==
    /\ iap_redirect_uri = [i \in IapClients |-> None]
    /\ iap_server = [i \in IapClients |-> None]
    /\ iap_pc = [i \in IapClients |-> "idle"]
    /\ iap_posts = [i \in IapClients |-> <<>>]

NativeInit ==
    /\ IapInit
    /\ redirect_method \in [Clients -> {"manual", "server"}]
    /\ scopes = [c \in Clients |-> None]
    /\ code_verifier = [c \in Clients |-> None]
    /\ code_challenge = [c \in Clients |-> None]
    /\ state = [c \in Clients |-> None]
    /\ redirect_uri = [c \in Clients |-> None]
    /\ server = [c \in Clients |-> None]
    /\ pc = [c \in Clients |-> "idle"]
    /\ listeners = <<>>
    /\ resultQ = <<>>
    /\ posts = [c \in Clients |-> <<>>]
    /\ ret = NoRet
    /\ logins = 0

\* LocalTokenRepository.__init__ on a fresh database, and no call made yet
NoRepoRet == [op |-> "none", outcome |-> "none", args |-> <<>>, rows |-> <<>>]

RepoInit ==
    /\ table = <<>>
    /\ repo_ret = NoRepoRet

Init ==
    /\ NativeInit
    /\ ConfInit
    /\ clock = 0
    /\ RepoInit

Raised(c, op, outcome) == [NoRet EXCEPT !.client = c, !.op = op, !.outcome = outcome]

\* an exchange call that ends, or blocks, without a token request
Exchanged(c, outcome) ==
    [Raised(c, "exchange", outcome) EXCEPT !.before = Len(posts[c])]

\* ------------------------------------------------------------- new_login
HasScopes_any(sc) == TRUE

\* line 142: len(scopes) == 0 is refused
HasScopes(sc) == Len(sc) # 0

\* new_login(*scopes) with no scope: raises before anything is set
NewLoginNoScopes(c) ==
    /\ pc[c] = "idle"
    /\ \E sc \in ScopeArgs : ~HasScopes(sc)
    /\ ret' = Raised(c, "new_login", "NoScopes")
    /\ UNCHANGED <<confVars, repoVars, iapVars, redirect_method, sessionVars, pc, listeners, resultQ, posts, logins>>

\* new_login(*scopes) up to the yield; in server mode _start_local_server
\* constructs the LocalServer and then either run binds and starts the
\* listener, or the bind of run raises OSError (the port number is in use:
\* the probe socket is not collected yet, or someone else took the port)
NewLogin(c, sc, bindOk) ==
    /\ pc[c] = "idle"
    /\ HasScopes(sc)
    /\ logins < MaxLogins
    /\ logins' = logins + 1
    /\ scopes' = [scopes EXCEPT ![c] = Some(sc)]
    /\ code_verifier' = [code_verifier EXCEPT ![c] = Some(_generate_code_verifier(logins'))]
    /\ code_challenge' = [code_challenge EXCEPT
            ![c] = Some(_generate_code_challenge(_generate_code_verifier(logins')))]
    /\ state' = [state EXCEPT ![c] = Some(_generate_state(logins'))]
    /\ IF redirect_method[c] = "server"
       THEN IF bindOk
            THEN /\ listeners' = Append(listeners, NewListener(Len(listeners) + 1, logins'))
                 /\ server' = [server EXCEPT ![c] = Some(Len(listeners) + 1)]
                 /\ redirect_uri' = [redirect_uri EXCEPT
                        ![c] = Some(LoopbackUri(PortBase + Len(listeners) + 1))]
                 /\ pc' = [pc EXCEPT ![c] = "body"]
                 /\ ret' = Raised(c, "new_login", "entered")
            ELSE /\ listeners' = Append(listeners, LocalServer(Len(listeners) + 1, logins'))
                 /\ ret' = Raised(c, "new_login", "OSError")
                 /\ UNCHANGED <<server, redirect_uri, pc>>
       ELSE /\ bindOk
            /\ redirect_uri' = [redirect_uri EXCEPT ![c] = Some(OobUri)]
            /\ pc' = [pc EXCEPT ![c] = "body"]
            /\ ret' = Raised(c, "new_login", "entered")
            /\ UNCHANGED <<listeners, server>>
    /\ posts' = [posts EXCEPT ![c] = <<>>]
    /\ UNCHANGED <<confVars, repoVars, iapVars, redirect_method, resultQ>>

\* the finally block of new_login: runs when the body returns or raises
ExitLogin(c) ==
    /\ pc[c] \in {"body", "blocked"}
    /\ scopes' = [scopes EXCEPT ![c] = None]
    /\ code_verifier' = [code_verifier EXCEPT ![c] = None]
    /\ code_challenge' = [code_challenge EXCEPT ![c] = None]
    /\ state' = [state EXCEPT ![c] = None]
    /\ redirect_uri' = [redirect_uri EXCEPT ![c] = None]
    /\ server' = [server EXCEPT ![c] = None]
    /\ pc' = [pc EXCEPT ![c] = "idle"]
    /\ ret' = NoRet
    /\ UNCHANGED <<confVars, repoVars, iapVars, redirect_method, listeners, resultQ, posts, logins>>

\* ------------------------------------------------------ authentication_url
\* " ".join(list)
RECURSIVE Join(_)
Join(l) ==
    IF l = <<>> THEN <<>>
    ELSE IF Len(l) = 1 THEN l[1]
    ELSE l[1] \o <<" ">> \o Join(Tail(l))

UrlComputable_noUri(c) ==
    ~(IsNone(code_challenge[c]) \/ IsNone(state[c]) \/ IsNone(scopes[c]))

\* lines 80-86: the four fields the property needs
UrlComputable(c) ==
    ~(IsNone(code_challenge[c]) \/ IsNone(redirect_uri[c])
        \/ IsNone(state[c]) \/ IsNone(scopes[c]))

\* lines 88-97: the query arguments of the URL, each the attribute's value
qargs(c) ==
    [client_id |-> c,
     redirect_uri |-> redirect_uri[c],
     response_type |-> "code",
     scope |-> Join([i \in 1..Len(Val(scopes[c])) |-> <<Val(scopes[c])[i]>>]),
     code_challenge |-> code_challenge[c],
     code_challenge_method |-> "S256",
     state |-> state[c],
     login_hint |-> ""]

\* a read of the authentication_url property, by the thread that owns the
\* client: outside a login or in the body of one
authentication_url(c) ==
    /\ pc[c] \in {"idle", "body"}
    /\ ret' = IF UrlComputable(c)
              THEN [Raised(c, "authentication_url", "ok") EXCEPT !.url = Some(qargs(c))]
              ELSE Raised(c, "authentication_url", "Uninitialized")
    /\ UNCHANGED <<confVars, repoVars, iapVars, redirect_method, sessionVars, pc, listeners, resultQ, posts, logins>>

\* ------------------------------------------------- the redirect listener
\* a request line is its sequence of words; the path word words[2] is given
\* by the dict that dict(parse_qsl(urlsplit(path).query)) makes of it.  The
\* provider redirects with a code or with an error, and echoes the state of
\* the login the listener was started for; anyone else may send any state.
StateParams(l) == {StateNames[listeners[l].login], "WRONG"}

Dict(code, st, error) ==
    LET D == (IF IsNone(code) THEN {} ELSE {"code"})
               \cup (IF IsNone(st) THEN {} ELSE {"state"})
               \cup (IF IsNone(error) THEN {} ELSE {"error"})
    IN [k \in D |-> IF k = "code" THEN Val(code)
                    ELSE IF k = "state" THEN Val(st) ELSE Val(error)]

Paths(l) ==
    {Dict(Some(code), Some(st), None) : code \in Codes, st \in StateParams(l)}
      \cup {Dict(None, st, Some("access_denied")) :
                st \in {None, Some(StateNames[listeners[l].login])}}

NoQuery == Dict(None, None, None)
Denied == Dict(None, None, Some("access_denied"))

RequestLines(l) ==
    {<<"GET">>, <<"GET", Denied>>, <<"GET", NoQuery, "HTTP/1.1", "junk">>}
      \cup {<<"GET", q, "HTTP/1.1">> : q \in Paths(l)}

\* dict.get(key): None when the key is absent
Get(d, key) == IF key \in DOMAIN d THEN Some(d[key]) ELSE None

\* class Result, with the listener whose handler constructed the object
Result(code, st, l) == [code |-> code, state |-> st, origin |-> l]

\* LocalHandler.handle, line 25: the request line must have 2 or 3 words
GoodSyntax(words) == 2 <= Len(words) /\ Len(words) <= 3

\* LocalHandler.handle, lines 33 and 37: the error parameter is read, and
\* logged, when the code or the state is missing
LoggedError(words) ==
    LET qargs_dict == words[2] IN
    IF IsNone(Get(qargs_dict, "code")) \/ IsNone(Get(qargs_dict, "state"))
    THEN Get(qargs_dict, "error") ELSE None

\* LocalHandler.handle, lines 28-39: code and state, "" for a missing one
ParsedResult(words, l) ==
    LET qargs_dict == words[2]
        code == Get(qargs_dict, "code")
        st == Get(qargs_dict, "state")
    IN Result(IF IsNone(code) THEN "" ELSE Val(code),
              IF IsNone(st) THEN "" ELSE Val(st), l)

\* LocalHandler.handle, lines 41-50: the response the handler writes
ConfirmationPage ==
    [status |-> 200, content_type |-> "text/html",
     body |-> "<html><body>You may now close this tab.</body></html>"]

CanPublish_bounded(q) == Len(q) < 1

\* LocalHandler.result is queue.Queue() with no maxsize: it is never full, so
\* put_nowait returns at once whatever the queue holds
CanPublish(q) == TRUE

CanHandle_forever(l) == TRUE

\* server.handle_request runs on the listener's thread: one request only
CanHandle(l) == listeners[l].thread = "waiting"

\* what handling the request line `words` leaves behind: the response is
\* written, the result is published with put_nowait on the class's queue,
\* the thread ends; a bad request line returns before both
Handle(l, words) ==
    IF GoodSyntax(words)
    THEN /\ CanPublish(resultQ)
         /\ resultQ' = Append(resultQ, ParsedResult(words, l))
         /\ listeners' = [listeners EXCEPT ![l].thread = "done",
                                           ![l].served = @ + 1,
                                           ![l].error = LoggedError(words),
                                           ![l].response = Some(ConfirmationPage),
                                           ![l].published = @ + 1]
    ELSE /\ resultQ' = resultQ
         /\ listeners' = [listeners EXCEPT ![l].thread = "done",
                                           ![l].served = @ + 1]

\* the one request a listener handles: handle_request accepts a connection
\* and LocalHandler.handle reads its request line
HandleRequest(l) ==
    /\ l \in 1..Len(listeners)
    /\ listeners[l].bound
    /\ CanHandle(l)
    /\ \E words \in RequestLines(l) : Handle(l, words)
    /\ ret' = NoRet
    /\ UNCHANGED <<confVars, repoVars, iapVars, redirect_method, sessionVars, pc, posts, logins>>

\* a further connection on the port: the socket still listens, so the
\* kernel queues it, and no thread is left to accept it
ExtraRequest(l) ==
    /\ l \in 1..Len(listeners)
    /\ listeners[l].bound
    /\ ~CanHandle(l)
    /\ ret' = [NoRet EXCEPT !.op = "connect", !.outcome = "unaccepted",
                              !.result = Some(Result("", "", l))]
    /\ UNCHANGED <<confVars, repoVars, iapVars, redirect_method, sessionVars, pc, listeners, resultQ, posts, logins>>

\* a call of shutdown on the session's listener from the body of the login
ShutdownCall(c) ==
    /\ pc[c] = "body"
    /\ ~IsNone(server[c])
    /\ listeners' = shutdown(listeners, Val(server[c]))
    /\ ret' = Raised(c, "shutdown", "ok")
    /\ UNCHANGED <<confVars, repoVars, iapVars, redirect_method, sessionVars, pc, resultQ, posts, logins>>

\* ------------------------------------------------------- token responses
\* str.split(" "): cut at every single space, empty pieces kept
RECURSIVE SplitAcc(_, _, _)
SplitAcc(s, cur, acc) ==
    IF s = <<>> THEN Append(acc, cur)
    ELSE IF Head(s) = " " THEN SplitAcc(Tail(s), <<>>, Append(acc, cur))
    ELSE SplitAcc(Tail(s), Append(cur, Head(s)), acc)

\* TokenResponse.parse_scopes for a str value
parse_scopes(v) == SplitAcc(v, <<>>, <<>>)

ScopeStrings == {<<"openid", " ", "email">>, <<"email", " ", " ", "openid">>}

\* what the token endpoint may answer: a status, whether the JSON body has
\* the required fields, and its scope string
Responses ==
    {[status |-> 200, complete |-> TRUE, scope |-> s] : s \in ScopeStrings}
      \cup {[status |-> 200, complete |-> FALSE, scope |-> <<>>],
            [status |-> 304, complete |-> FALSE, scope |-> <<>>],
            [status |-> 400, complete |-> FALSE, scope |-> <<>>]}

\* resp.raise_for_status() raises for 4xx and 5xx, and for nothing else
RaisesForStatus(resp) == resp.status >= 400

\* -------------------------------------------------------------- exchange
TokenRequest_challenge(c, code) ==
    [client_id |-> c,
     code |-> code,
     code_verifier |-> code_challenge[c],
     grant_type |-> "authorization_code",
     redirect_uri |-> redirect_uri[c]]

\* the form data of the authorization_code grant
TokenRequest(c, code) ==
    [client_id |-> c,
     code |-> code,
     code_verifier |-> code_verifier[c],
     grant_type |-> "authorization_code",
     redirect_uri |-> redirect_uri[c]]

StateMatches_unchecked(c, result) == TRUE

\* line 113: the captured state must be the session's
StateMatches(c, result) == Some(result.state) = state[c]

\* lines 120-138: post the grant; raise_for_status, then TokenResponse
PostAndParse(c, code, result, resp) ==
    /\ posts' = [posts EXCEPT ![c] = Append(@, TokenRequest(c, code))]
    /\ ret' = [client |-> c,
               op |-> "exchange",
               outcome |-> IF RaisesForStatus(resp) THEN "ExchangeFailed"
                           ELSE IF ~resp.complete THEN "ValidationError"
                           ELSE "ok",
               result |-> result,
               posted |-> TRUE,
               token |-> IF ~RaisesForStatus(resp) /\ resp.complete
                         THEN Some([scope |-> parse_scopes(resp.scope)])
                         ELSE None,
               resp |-> Some(resp),
               url |-> None,
               before |-> Len(posts[c])]

\* exchange_authorization_code_for_tokens(code): to its end in manual mode,
\* up to the blocking get in server mode
ExchangeCall(c, code) ==
    /\ pc[c] \in {"idle", "body"}
    /\ Len(posts[c]) < MaxPosts
    /\ IF IsNone(code_verifier[c])
       THEN /\ ret' = Exchanged(c, "Uninitialized")
            /\ UNCHANGED <<pc, posts>>
       ELSE IF redirect_method[c] = "server"
       THEN IF IsNone(server[c])
            THEN /\ ret' = Exchanged(c, "Uninitialized")
                 /\ UNCHANGED <<pc, posts>>
            ELSE /\ pc' = [pc EXCEPT ![c] = "blocked"]
                 /\ ret' = Exchanged(c, "blocked")
                 /\ UNCHANGED posts
       ELSE IF IsNone(code)
            THEN /\ ret' = Exchanged(c, "NoCode")
                 /\ UNCHANGED <<pc, posts>>
            ELSE /\ \E resp \in Responses : PostAndParse(c, Val(code), None, resp)
                 /\ UNCHANGED pc
    /\ UNCHANGED <<confVars, repoVars, iapVars, redirect_method, sessionVars, listeners, resultQ, logins>>

\* server mode, from the return of get_result_blocking to the end
ExchangeResume(c) ==
    /\ pc[c] = "blocked"
    /\ resultQ # <<>>
    /\ LET result == Head(resultQ) IN
         /\ resultQ' = Tail(resultQ)
         /\ pc' = [pc EXCEPT ![c] = "body"]
         /\ IF ~StateMatches(c, result)
            THEN /\ ret' = [Exchanged(c, "InvalidState") EXCEPT
                              !.result = Some(result)]
                 /\ UNCHANGED <<posts, listeners>>
            ELSE /\ listeners' = shutdown(listeners, Val(server[c]))
                 /\ \E resp \in Responses :
                        PostAndParse(c, result.code, Some(result), resp)
    /\ UNCHANGED <<confVars, repoVars, iapVars, redirect_method, sessionVars, logins>>

\* ------------------------------------------------ the IAP native client
\* IapNativeClient.new_login up to the yield: the listener is started, and
\* when that raises nothing is assigned
IapNewLogin(i, bindOk) ==
    /\ iap_pc[i] = "idle"
    /\ logins < MaxLogins
    /\ logins' = logins + 1
    /\ IF bindOk
       THEN /\ listeners' = Append(listeners, NewListener(Len(listeners) + 1, logins'))
            /\ iap_server' = [iap_server EXCEPT ![i] = Some(Len(listeners) + 1)]
            /\ iap_redirect_uri' = [iap_redirect_uri EXCEPT
                   ![i] = Some(LoopbackUri(PortBase + Len(listeners) + 1))]
            /\ iap_pc' = [iap_pc EXCEPT ![i] = "body"]
            /\ ret' = Raised(i, "new_login", "entered")
       ELSE /\ listeners' = Append(listeners, LocalServer(Len(listeners) + 1, logins'))
            /\ ret' = Raised(i, "new_login", "OSError")
            /\ UNCHANGED <<iap_server, iap_redirect_uri, iap_pc>>
    /\ iap_posts' = [iap_posts EXCEPT ![i] = <<>>]
    /\ UNCHANGED <<confVars, repoVars, redirect_method, sessionVars, pc, resultQ, posts>>

\* the finally block of IapNativeClient.new_login
IapExitLogin(i) ==
    /\ iap_pc[i] \in {"body", "blocked"}
    /\ listeners' = shutdown(listeners, Val(iap_server[i]))
    /\ iap_redirect_uri' = [iap_redirect_uri EXCEPT ![i] = None]
    /\ iap_server' = [iap_server EXCEPT ![i] = None]
    /\ iap_pc' = [iap_pc EXCEPT ![i] = "idle"]
    /\ ret' = NoRet
    /\ UNCHANGED <<confVars, repoVars, redirect_method, sessionVars, pc, resultQ,
                   posts, logins, iap_posts>>

\* the form data of the IAP client's authorization_code grant
IapTokenRequest(i, code) ==
    [client_id |-> i,
     code |-> code,
     grant_type |-> "authorization_code",
     redirect_uri |-> iap_redirect_uri[i]]

\* IapNativeClient.exchange_authorization_code_for_tokens up to the
\* blocking get
IapExchangeCall(i) ==
    /\ iap_pc[i] \in {"idle", "body"}
    /\ IF IsNone(iap_redirect_uri[i]) \/ IsNone(iap_server[i])
       THEN /\ ret' = [Raised(i, "exchange", "Uninitialized") EXCEPT
                         !.before = Len(iap_posts[i])]
            /\ UNCHANGED iap_pc
       ELSE /\ ret' = [Raised(i, "exchange", "blocked") EXCEPT
                         !.before = Len(iap_posts[i])]
            /\ iap_pc' = [iap_pc EXCEPT ![i] = "blocked"]
    /\ UNCHANGED <<confVars, repoVars, redirect_method, sessionVars, pc, listeners,
                   resultQ, posts, logins, iap_redirect_uri, iap_server, iap_posts>>

\* from the return of get_result_blocking to the end: the captured code is
\* posted, raise_for_status, then TokenResponse
IapExchangeResume(i) ==
    /\ iap_pc[i] = "blocked"
    /\ resultQ # <<>>
    /\ Len(iap_posts[i]) < MaxPosts
    /\ LET result == Head(resultQ) IN
         /\ resultQ' = Tail(resultQ)
         /\ iap_pc' = [iap_pc EXCEPT ![i] = "body"]
         /\ iap_posts' = [iap_posts EXCEPT ![i] = Append(@, IapTokenRequest(i, result.code))]
         /\ \E resp \in Responses :
              ret' = [client |-> i,
                      op |-> "exchange",
                      outcome |-> IF RaisesForStatus(resp) THEN "ExchangeFailed"
                                  ELSE IF ~resp.complete THEN "ValidationError"
                                  ELSE "ok",
                      result |-> Some(result),
                      posted |-> TRUE,
                      token |-> IF ~RaisesForStatus(resp) /\ resp.complete
                                THEN Some([scope |-> parse_scopes(resp.scope)])
                                ELSE None,
                      resp |-> Some(resp),
                      url |-> None,
                      before |-> Len(iap_posts[i])]
    /\ UNCHANGED <<confVars, repoVars, redirect_method, sessionVars, pc, listeners,
                   posts, logins, iap_redirect_uri, iap_server>>

\* ------------------------------------------- the confidential client
\* int(time.time()) when the clock shows t ticks
int(t) == t \div TicksPerSecond

\* exp_in_s = 60 * 60
exp_in_s == 3600

\* how far the clock moves between two reads
Advances == (0 - MaxAdvance)..MaxAdvance

ClaimSet_iatFirst(sc, t_first, t_second) ==
    [iss |-> "service-account",
     scope |-> Join([i \in 1..Len(sc) |-> <<sc[i]>>]),
     aud |-> "https://oauth2.googleapis.com/token",
     exp |-> int(t_second) + exp_in_s,
     iat |-> int(t_first)]

\* jwt_claim_set, lines 69-75: the dict display reads the clock for "exp"
\* first and reads it again for "iat"
ClaimSet(sc, t_first, t_second) ==
    [iss |-> "service-account",
     scope |-> Join([i \in 1..Len(sc) |-> <<sc[i]>>]),
     aud |-> "https://oauth2.googleapis.com/token",
     exp |-> int(t_first) + exp_in_s,
     iat |-> int(t_second)]

ConfRaised(op, outcome) == [NoConfRet EXCEPT !.op = op, !.outcome = outcome]

\* GcpConfidentialClient.new_login(*scopes) up to the yield
ConfNewLogin(sc) ==
    /\ IsNone(conf_scopes)
    /\ IF HasScopes(sc)
       THEN /\ conf_scopes' = Some(sc)
            /\ conf_ret' = ConfRaised("new_login", "entered")
       ELSE /\ conf_ret' = ConfRaised("new_login", "NoScopes")
            /\ UNCHANGED conf_scopes
    /\ UNCHANGED <<clock, nativeVars, repoVars>>

\* the finally block of GcpConfidentialClient.new_login
ConfExitLogin ==
    /\ ~IsNone(conf_scopes)
    /\ conf_scopes' = None
    /\ conf_ret' = NoConfRet
    /\ UNCHANGED <<clock, nativeVars, repoVars>>

\* a read of the jwt_claim_set property; the clock moves by d between the
\* read for "exp" and the read for "iat"
jwt_claim_set(d) ==
    /\ clock + d \in 0..MaxClock
    /\ IF IsNone(conf_scopes)
       THEN /\ conf_ret' = ConfRaised("jwt_claim_set", "Uninitialized")
            /\ UNCHANGED clock
       ELSE /\ conf_ret' = [ConfRaised("jwt_claim_set", "ok") EXCEPT
                               !.claims = Some(ClaimSet(Val(conf_scopes), clock, clock + d)),
                               !.reads = <<clock, clock + d>>]
            /\ clock' = clock + d
    /\ UNCHANGED <<conf_scopes, nativeVars, repoVars>>

\* get_tokens: the assertion is the signed claim set; one post, then
\* raise_for_status and TokenResponse with the scope of the login
get_tokens(d, resp) ==
    /\ clock + d \in 0..MaxClock
    /\ IF IsNone(conf_scopes)
       THEN /\ conf_ret' = ConfRaised("get_tokens", "Uninitialized")
            /\ UNCHANGED clock
       ELSE /\ conf_ret' =
                 [op |-> "get_tokens",
                  outcome |-> IF RaisesForStatus(resp) THEN "ExchangeFailed"
                              ELSE IF ~resp.complete THEN "ValidationError"
                              ELSE "ok",
                  claims |-> Some(ClaimSet(Val(conf_scopes), clock, clock + d)),
                  reads |-> <<clock, clock + d>>,
                  posted |-> TRUE,
                  token |-> IF ~RaisesForStatus(resp) /\ resp.complete
                            THEN Some([scope |-> parse_scopes(
                                    Join([i \in 1..Len(Val(conf_scopes)) |->
                                            <<Val(conf_scopes)[i]>>]))])
                            ELSE None]
            /\ clock' = clock + d
    /\ UNCHANGED <<conf_scopes, nativeVars, repoVars>>

\* time passes, or the clock is set, between two calls
Tick(d) ==
    /\ d # 0
    /\ clock + d \in 0..MaxClock
    /\ clock' = clock + d
    /\ conf_ret' = NoConfRet
    /\ UNCHANGED <<conf_scopes, nativeVars, repoVars>>

InitConf ==
    /\ NativeInit
    /\ ConfInit
    /\ clock \in 0..MaxClock
    /\ RepoInit

NextConf ==
    \/ \E sc \in ScopeArgs : ConfNewLogin(sc)
    \/ ConfExitLogin
    \/ \E d \in Advances : jwt_claim_set(d)
    \/ \E d \in Advances, resp \in Responses : get_tokens(d, resp)
    \/ \E d \in Advances : Tick(d)

SpecConf == InitConf /\ [][NextConf]_vars

\* ------------------------------------------------- the token repository
\* the scope words in the order str comparison gives them
ScopeOrder == <<"email", "openid", "profile">>

\* sorted(list) of scope words
RECURSIVE SortedFrom(_, _)
SortedFrom(l, k) ==
    IF k > Len(ScopeOrder) THEN <<>>
    ELSE SelectSeq(l, LAMBDA x : x = ScopeOrder[k]) \o SortedFrom(l, k + 1)

sorted(l) == SortedFrom(l, 1)

\* "|".join(list): the string, as its words and its "|" characters
RECURSIVE PipeJoin(_)
PipeJoin(l) ==
    IF l = <<>> THEN <<>>
    ELSE IF Len(l) = 1 THEN <<l[1]>>
    ELSE <<l[1], "|">> \o PipeJoin(Tail(l))

\* str.split("|")
RECURSIVE PipeSplitAcc(_, _, _)
PipeSplitAcc(s, cur, acc) ==
    IF s = <<>> THEN Append(acc, cur)
    ELSE IF Head(s) = "|" THEN PipeSplitAcc(Tail(s), <<>>, Append(acc, cur))
    ELSE PipeSplitAcc(Tail(s), Append(cur, Head(s)), acc)

PipeSplit(s) == PipeSplitAcc(s, <<>>, <<>>)

\* a Python value handed to sqlite3 as a statement parameter
PyStr(v) == [type |-> "str", value |-> v]
PyList(v) == [type |-> "list", value |-> v]

\* the types sqlite3 binds: None, int, float, str, bytes
Bindable(p) == p.type \in {"NoneType", "int", "float", "str", "bytes"}

AccessTokens == {"at1", "at2"}
ScopeLists == {<<"openid">>, <<"openid", "email">>, <<"email", "openid">>}

\* the TokenResponse a row comes back as
RowToken(r) == [access_token |-> r.access_token, scope |-> PipeSplit(r.scope)]

\* store_tokens(t): one INSERT; access_token is the primary key.  given is
\* the scope list of the stored TokenResponse, kept beside the row
store_tokens(t) ==
    /\ Len(table) < MaxRows
    /\ IF \E i \in 1..Len(table) : table[i].access_token = t.access_token
       THEN /\ repo_ret' = [NoRepoRet EXCEPT !.op = "store_tokens",
                                              !.outcome = "IntegrityError"]
            /\ UNCHANGED table
       ELSE /\ table' = Append(table, [access_token |-> t.access_token,
                                       scope |-> PipeJoin(sorted(t.scope)),
                                       given |-> t.scope])
            /\ repo_ret' = [NoRepoRet EXCEPT !.op = "store_tokens", !.outcome = "ok"]
    /\ UNCHANGED <<nativeVars, confVars>>

\* get_tokens(): SELECT * FROM Tokens
repo_get_tokens ==
    /\ repo_ret' = [NoRepoRet EXCEPT !.op = "get_tokens", !.outcome = "ok",
                                     !.rows = [i \in 1..Len(table) |-> RowToken(table[i])]]
    /\ UNCHANGED <<table, nativeVars, confVars>>

\* get_tokens_for_scopes(*scopes): the parameter of WHERE scope = ? is the
\* list sorted_scopes itself
get_tokens_for_scopes(sc) ==
    /\ LET sorted_scopes == sorted(sc)
           param == PyList(sorted_scopes)
       IN repo_ret' =
            IF ~Bindable(param)
            THEN [NoRepoRet EXCEPT !.op = "get_tokens_for_scopes",
                                   !.outcome = "InterfaceError", !.args = sc]
            ELSE [op |-> "get_tokens_for_scopes", outcome |-> "ok", args |-> sc,
                  rows |-> LET hit == SelectSeq(table, LAMBDA r : PyStr(r.scope) = param)
                           IN [i \in 1..Len(hit) |-> RowToken(hit[i])]]
    /\ UNCHANGED <<table, nativeVars, confVars>>

InitRepo ==
    /\ NativeInit
    /\ ConfInit
    /\ clock = 0
    /\ RepoInit

NextRepo ==
    \/ \E a \in AccessTokens, sc \in ScopeLists :
            store_tokens([access_token |-> a, scope |-> sc])
    \/ repo_get_tokens
    \/ \E sc \in ScopeLists : get_tokens_for_scopes(sc)

SpecRepo == InitRepo /\ [][NextRepo]_vars

\* C21: once tokens are stored, get_tokens_for_scopes returns, of the stored
\* tokens, exactly those whose scope list is a permutation of the scopes
\* asked for
C21_LookupOrderIndependent ==
    (repo_ret.op = "get_tokens_for_scopes" /\ table # <<>>)
      => /\ repo_ret.outcome = "ok"
         /\ \A i \in 1..Len(table) :
              ({table[i].given[k] : k \in 1..Len(table[i].given)}
                  = {repo_ret.args[k] : k \in 1..Len(repo_ret.args)})
                <=> \E j \in 1..Len(repo_ret.rows) :
                        repo_ret.rows[j].access_token = table[i].access_token

\* C16: every claim set the confidential client generates has
\* exp - iat = 3600, whatever the clock did between the two reads
C16_LifetimeExactly3600 ==
    ~IsNone(conf_ret.claims)
      => Val(conf_ret.claims).exp - Val(conf_ret.claims).iat = 3600

\* C17: when the clock did not go back between the read for exp and the
\* read for iat, the claim set's exp - iat is at most 3600
C17_LifetimeAtMost3600 ==
    (~IsNone(conf_ret.claims) /\ conf_ret.reads[1] <= conf_ret.reads[2])
      => Val(conf_ret.claims).exp - Val(conf_ret.claims).iat <= 3600

C17_Witness ==
    /\ ~IsNone(conf_ret.claims)
    /\ conf_ret.reads[1] < conf_ret.reads[2]
    /\ Val(conf_ret.claims).exp - Val(conf_ret.claims).iat < 3600
    /\ conf_ret.op = "get_tokens" /\ conf_ret.outcome = "ok"

\* ------------------------------------------------------------ properties
\* the exchange call whose outcome ret holds was made in c's current login
InSessionCall(c) == pc[c] = "body" /\ ret.client = c /\ ret.op = "exchange"

Cleared(c) ==
    /\ IsNone(scopes[c]) /\ IsNone(code_verifier[c]) /\ IsNone(code_challenge[c])
    /\ IsNone(state[c]) /\ IsNone(redirect_uri[c]) /\ IsNone(server[c])

\* C1: in server mode a captured result whose state differs from the
\* session's state makes the call fail with no token request, and every
\* token request of a server-mode exchange follows, in the same call, a
\* captured result whose state is the session's state
C1_StateMismatchSendsNothing ==
    \A c \in Clients :
        (redirect_method[c] = "server" /\ ret.client = c /\ ret.op = "exchange")
          => /\ (~IsNone(ret.result) /\ Some(Val(ret.result).state) # state[c])
                  => ret.outcome = "InvalidState" /\ ~ret.posted
             /\ ret.posted
                  => /\ ~IsNone(ret.result)
                     /\ Some(Val(ret.result).state) = state[c]
                     /\ ~IsNone(state[c])
             /\ ret.posted => posts[c] # <<>>

C1_Witness ==
    \E c \in Clients :
        /\ redirect_method[c] = "server" /\ InSessionCall(c)
        /\ ret.outcome = "InvalidState"
        /\ Val(ret.result).state = "WRONG"
        /\ posts[c] = <<>>

\* C2: the result get_result_blocking returns on a session's listener was
\* parsed from a request that same listener received
C2_ResultFromOwnListener ==
    \A c \in Clients :
        (InSessionCall(c) /\ ~IsNone(ret.result) /\ ~IsNone(server[c]))
          => Val(ret.result).origin = Val(server[c])

\* C3: once a server-mode login context has been left, the listener started
\* for it no longer holds its port
C3_ListenerReleasedOnExit ==
    \A l \in 1..Len(listeners) :
        (\A c \in Clients : server[c] # Some(l)) => ~listeners[l].bound

\* C4: outside any login context the session fields are all unset
C4_IdleOutsideLogin == \A c \in Clients : pc[c] = "idle" => Cleared(c)

\* C5: a captured redirect with a provider error and no code makes the
\* server-mode exchange fail with a callback error and send nothing
C5_ProviderErrorFails ==
    \A c \in Clients :
        (/\ redirect_method[c] = "server" /\ InSessionCall(c)
         /\ ~IsNone(ret.result)
         /\ Val(ret.result).code = ""
         /\ ~IsNone(listeners[Val(ret.result).origin].error))
          => ret.outcome = "InvalidState" /\ ~ret.posted

\* C6: no code_verifier is sent to the token endpoint twice
C6_VerifierSentOnce ==
    \A c \in Clients : \A i, j \in 1..Len(posts[c]) :
        i # j => posts[c][i].code_verifier # posts[c][j].code_verifier

\* C7: a listener that has received its request has published a result
C7_RequestPublishes ==
    \A l \in 1..Len(listeners) :
        listeners[l].served > 0 => listeners[l].published > 0

\* C8: a listener handles one request and publishes at most one result;
\* a later connection on its port is not handled and publishes nothing
C8_OneRequestOneResult ==
    \A l \in 1..Len(listeners) :
        /\ listeners[l].served <= 1
        /\ listeners[l].published <= listeners[l].served
        /\ listeners[l].thread = "done" <=> listeners[l].served = 1
        /\ Cardinality({i \in 1..Len(resultQ) : resultQ[i].origin = l})
             <= listeners[l].published
        /\ (ret.op = "connect" /\ Val(ret.result).origin = l)
             => listeners[l].served = 1 /\ listeners[l].thread = "done"

C8_Witness ==
    \E l \in 1..Len(listeners) :
        /\ listeners[l].served = 1 /\ listeners[l].published = 1
        /\ ret.op = "connect" /\ Val(ret.result).origin = l
        /\ \E i \in 1..Len(resultQ) : resultQ[i].origin = l

\* C9: when an exchange has failed inside a login, the session is already
\* torn down when the caller sees the error: fields cleared, no listener of
\* the caller still bound
C9_TornDownBeforeErrorSeen ==
    \A c \in Clients :
        (ret.client = c /\ ret.op = "exchange"
           /\ ret.outcome \in {"InvalidState", "NoCode", "ExchangeFailed"})
          => /\ pc[c] = "idle"
             /\ Cleared(c)
             /\ \A l \in 1..Len(listeners) :
                  listeners[l].bound => \E d \in Clients \ {c} : server[d] = Some(l)

\* C10: in server mode, a callback on the session's listener with a code and
\* the session's state, then a 2xx answer with the token fields, makes the
\* exchange succeed; the request carries that code, the session's verifier,
\* grant_type authorization_code and the session's redirect_uri, and the
\* token's scope is the list of space-separated words of the scope string
C10_ServerExchangeSucceeds ==
    \A c \in Clients :
        (/\ redirect_method[c] = "server" /\ pc[c] = "body" /\ ret.op = "exchange"
         /\ ~IsNone(ret.result)
         /\ Val(ret.result).origin = Val(server[c])
         /\ Val(ret.result).code \in Codes
         /\ Some(Val(ret.result).state) = state[c]
         /\ ~IsNone(ret.resp)
         /\ Val(ret.resp).status = 200 /\ Val(ret.resp).complete)
          => /\ ret.outcome = "ok"
             /\ posts[c] # <<>>
             /\ Len(listeners) = 1 => Len(posts[c]) = 1
             /\ posts[c][Len(posts[c])] =
                  [client_id |-> c,
                   code |-> Val(ret.result).code,
                   code_verifier |-> code_verifier[c],
                   grant_type |-> "authorization_code",
                   redirect_uri |-> Some(LoopbackUri(listeners[Val(server[c])].port))]
             /\ posts[c][Len(posts[c])].code_verifier
                  = Some(VerifierNames[listeners[Val(server[c])].login])
             /\ ~IsNone(ret.token)
             /\ Join(Val(ret.token).scope) = Val(ret.resp).scope
             /\ \A i \in 1..Len(Val(ret.token).scope) :
                  \A k \in 1..Len(Val(ret.token).scope[i]) :
                      Val(ret.token).scope[i][k] # " "

C10_Witness ==
    \E c \in Clients :
        /\ redirect_method[c] = "server" /\ InSessionCall(c)
        /\ ret.outcome = "ok"
        /\ Val(ret.result).origin = Val(server[c])
        /\ Val(ret.token).scope = <<<<"email">>, <<>>, <<"openid">>>>

\* C11: every listener holds its port from its construction on, and in
\* server mode, whenever authentication_url is computable, redirect_uri names
\* the port that the session's own listener is bound to and accepting on
C11_PortHeldWhileUrlComputable ==
    /\ \A l \in 1..Len(listeners) : listeners[l].bound
    /\ \A c \in Clients :
          (redirect_method[c] = "server" /\ UrlComputable(c))
            => /\ ~IsNone(server[c])
               /\ redirect_uri[c] = Some(LoopbackUri(listeners[Val(server[c])].port))
               /\ listeners[Val(server[c])].bound
               /\ listeners[Val(server[c])].thread = "waiting"

\* C12: a read of authentication_url outside a login context (before any
\* new_login, after an exit) fails as uninitialized; a read inside a login
\* context succeeds and the URL carries the session's code_challenge, state
\* and redirect_uri
C12_UrlOnlyInsideLogin ==
    \A c \in Clients :
        (ret.client = c /\ ret.op = "authentication_url")
          => /\ pc[c] = "idle" => ret.outcome = "Uninitialized" /\ IsNone(ret.url)
             /\ pc[c] = "body"
                  => /\ ret.outcome = "ok"
                     /\ ~IsNone(ret.url)
                     /\ ~IsNone(code_challenge[c])
                     /\ ~IsNone(state[c])
                     /\ ~IsNone(redirect_uri[c])
                     /\ Val(ret.url).code_challenge = code_challenge[c]
                     /\ Val(ret.url).state = state[c]
                     /\ Val(ret.url).redirect_uri = redirect_uri[c]

C12_Witness ==
    \E c \in Clients :
        /\ ret.client = c /\ ret.op = "authentication_url" /\ ret.outcome = "ok"
        /\ pc[c] = "body"
        /\ redirect_method[c] = "server"
        /\ Val(ret.url).state = state[c]
        /\ \E d \in Clients \ {c} : pc[d] = "idle" /\ posts[d] # <<>>

C14_ManualMode ==
    \A c \in Clients :
        (redirect_method[c] = "manual" /\ pc[c] = "body")
          => /\ redirect_uri[c] = Some([scheme |-> "urn:ietf:wg:oauth:2.0:oob", port |-> 0])
             /\ IsNone(server[c])
             /\ \A l \in 1..Len(listeners) :
                  Some(VerifierNames[listeners[l].login]) # code_verifier[c]
             /\ (ret.client = c /\ ret.op = "exchange")
                  => /\ ret.posted
                          => /\ Len(posts[c]) = ret.before + 1
                             /\ posts[c][Len(posts[c])].code = "PASTED"
                     /\ ~ret.posted
                          => /\ ret.outcome = "NoCode"
                             /\ Len(posts[c]) = ret.before

C14_Witness ==
    \E c \in Clients :
        /\ redirect_method[c] = "manual" /\ InSessionCall(c)
        /\ ret.outcome = "NoCode"
        /\ posts[c] = <<>>
        /\ listeners # <<>>

\* C15: an exchange call sends at most one token request, and when the
\* answer to it is not 2xx the call fails with the exchange error and
\* returns no token, having sent that one request
C15_OneRequestNon2xxFails ==
    \A c \in Clients :
        (ret.client = c /\ ret.op = "exchange")
          => /\ Len(posts[c]) <= ret.before + 1
             /\ ret.posted <=> Len(posts[c]) = ret.before + 1
             /\ (~IsNone(ret.resp) /\ Val(ret.resp).status \notin 200..299)
                  => /\ ret.outcome = "ExchangeFailed"
                     /\ IsNone(ret.token)
                     /\ Len(posts[c]) = ret.before + 1

\* C18: the handler's publish step never waits: a listener that can take a
\* request can handle every request line, whatever the queue holds and
\* whether or not a caller is waiting on it, and a handler that wrote its
\* response has published its result
C18_PublishNeverBlocks ==
    \A l \in 1..Len(listeners) :
        /\ (listeners[l].bound /\ listeners[l].thread = "waiting")
              => \A words \in RequestLines(l) : ENABLED Handle(l, words)
        /\ ~IsNone(listeners[l].response)
              => listeners[l].published = listeners[l].served

C18_Witness ==
    /\ Len(resultQ) = 2
    /\ resultQ[1].origin # resultQ[2].origin
    /\ \A c \in Clients : pc[c] # "blocked"

\* C19: shutdown on any listener, also one that never received a request,
\* does not raise, and calling it again leaves what one call leaves
C19_ShutdownIdempotent ==
    /\ \A l \in 1..Len(listeners) :
          shutdown(shutdown(listeners, l), l) = shutdown(listeners, l)
    /\ ret.op = "shutdown" => ret.outcome = "ok"

C19_Witness ==
    \E c \in Clients :
        /\ ret.client = c /\ ret.op = "shutdown" /\ ret.outcome = "ok"
        /\ listeners[Val(server[c])].served = 0
        /\ listeners[Val(server[c])].bound

\* C20: every request a listener has received was answered with the fixed
\* 200 text/html confirmation page
C20_SameResponseToEveryRequest ==
    \A l \in 1..Len(listeners) :
        listeners[l].served > 0
          => listeners[l].response =
               Some([status |-> 200, content_type |-> "text/html",
                     body |-> "<html><body>You may now close this tab.</body></html>"])

\* C22: the challenge a client holds is the S256 challenge of the verifier
\* it holds; the URL read in a session carries that challenge and every
\* token request of the session carries that verifier; and a new_login, on
\* a fresh or a reused client, holds the verifier, challenge and state drawn
\* for it, which no other client holds and no earlier request carried
C22_PkceBinding ==
    \A c \in Clients :
        /\ IsNone(code_verifier[c]) <=> IsNone(code_challenge[c])
        /\ ~IsNone(code_verifier[c])
             => /\ code_challenge[c] = Some(<<"S256", Val(code_verifier[c])>>)
                /\ \A i \in 1..Len(posts[c]) :
                     posts[c][i].code_verifier = code_verifier[c]
                /\ \E k \in 1..logins :
                     /\ code_verifier[c] = Some(VerifierNames[k])
                     /\ state[c] = Some(StateNames[k])
                /\ \A d \in Clients \ {c} :
                     /\ code_verifier[d] # code_verifier[c]
                     /\ state[d] # state[c]
        /\ (ret.client = c /\ ret.op = "authentication_url" /\ ret.outcome = "ok")
             => /\ ~IsNone(code_verifier[c])
                /\ Val(ret.url).code_challenge = Some(<<"S256", Val(code_verifier[c])>>)
        /\ (ret.client = c /\ ret.op = "exchange" /\ ret.posted)
             => /\ ~IsNone(code_verifier[c])
                /\ posts[c][Len(posts[c])].code_verifier = code_verifier[c]
                /\ code_challenge[c]
                     = Some(<<"S256", Val(posts[c][Len(posts[c])].code_verifier)>>)
        /\ (ret.client = c /\ ret.op = "new_login" /\ ret.outcome = "entered")
             => /\ code_verifier[c] = Some(VerifierNames[logins])
                /\ state[c] = Some(StateNames[logins])
                /\ posts[c] = <<>>
                /\ \A d \in Clients : \A i \in 1..Len(posts[d]) :
                     posts[d][i].code_verifier # code_verifier[c]

\* the second login of the same client, its verifier sent
C22_Witness ==
    \E c \in Clients :
        /\ redirect_method[c] = "manual"
        /\ \A d \in Clients \ {c} : redirect_method[d] = "server"
        /\ listeners = <<>>
        /\ logins = 2
        /\ InSessionCall(c) /\ ret.posted
        /\ posts[c][1].code_verifier = Some("v2")

\* C23: when new_login has failed at the listener start, the client's
\* scopes, code_verifier, code_challenge and state are unset, and a later
\* authentication_url or exchange call outside a login fails as uninitialized
C23_FailedStartLeavesIdle ==
    \A c \in Clients :
        /\ (ret.client = c /\ ret.op = "new_login" /\ ret.outcome = "OSError")
             => /\ pc[c] = "idle"
                /\ IsNone(scopes[c]) /\ IsNone(code_verifier[c])
                /\ IsNone(code_challenge[c]) /\ IsNone(state[c])
        /\ (ret.client = c /\ pc[c] = "idle"
               /\ ret.op \in {"authentication_url", "exchange"})
             => ret.outcome = "Uninitialized"

\* C24: the code an IAP client's exchange sends was captured by the listener
\* of that client's own session
C24_IapCodeFromOwnListener ==
    \A i \in IapClients :
        (ret.client = i /\ ret.op = "exchange" /\ ret.posted /\ ~IsNone(iap_server[i]))
          => /\ Val(ret.result).origin = Val(iap_server[i])
             /\ iap_posts[i][Len(iap_posts[i])].code = Val(ret.result).code

\* the code argument of an exchange call: absent, or what the user pasted
CodeArgs == {None, Some("PASTED")}

Next ==
    \/ \E c \in Clients : NewLoginNoScopes(c)
    \/ \E c \in Clients, sc \in ScopeArgs, b \in BOOLEAN : NewLogin(c, sc, b)
    \/ \E c \in Clients : ExitLogin(c)
    \/ \E l \in ListenerIds : HandleRequest(l)
    \/ \E l \in ListenerIds : ExtraRequest(l)
    \/ \E c \in Clients, code \in CodeArgs : ExchangeCall(c, code)
    \/ \E c \in Clients : ExchangeResume(c)
    \/ \E c \in Clients : authentication_url(c)
    \/ \E c \in Clients : ShutdownCall(c)

Spec == Init /\ [][Next]_vars

\* the native clients and the IAP clients in one process
NextIap ==
    \/ \E c \in Clients, sc \in ScopeArgs, b \in BOOLEAN : NewLogin(c, sc, b)
    \/ \E c \in Clients : ExitLogin(c)
    \/ \E l \in ListenerIds : HandleRequest(l)
    \/ \E c \in Clients, code \in CodeArgs : ExchangeCall(c, code)
    \/ \E c \in Clients : ExchangeResume(c)
    \/ \E i \in IapClients, b \in BOOLEAN : IapNewLogin(i, b)
    \/ \E i \in IapClients : IapExitLogin(i)
    \/ \E i \in IapClients : IapExchangeCall(i)
    \/ \E i \in IapClients : IapExchangeResume(i)

SpecIap == Init /\ [][NextIap]_vars
====
